---------------------------- MODULE Spec2Model ----------------------------
(***************************************************************************)
(* Model of the meeting assistant: QuestionDetector                         *)
(* (src/question_detector.py), ModelRouter (src/model_router.py) and the   *)
(* session handlers of the advanced app (src/app_advanced.py).             *)
(*                                                                         *)
(* A Python string is a sequence of one-character strings, so that the     *)
(* string operations of the code (strip, split, lower, rstrip, endswith,   *)
(* the substring test `in`, count, re.split, join) are computed character  *)
(* by character.  Confidence values are counted in tenths (0.6 is 6),      *)
(* polarity / subjectivity and the confidence threshold of the app in      *)
(* hundredths (0.1 is 10, 0.75 is 75).                                     *)
(***************************************************************************)
EXTENDS Integers, Sequences, FiniteSets

VARIABLES
    text,               \* QuestionDetector: the text argument of the call
    returned,           \* QuestionDetector: what the last call returned
    question,           \* classify_question: the question argument
    tier,               \* classify_question: the tag returned
    claude_available,   \* ModelRouter.claude_available
    request,            \* the last call or handler run, with its inputs
    calls,              \* backend calls made by the last call or handler
    result,             \* route_and_query: what the last call returned
    meeting_context,    \* st.session_state.meeting_context
    questions_detected, \* st.session_state.questions_detected
    auto_responses,     \* st.session_state.auto_responses
    model_router,       \* st.session_state.model_router is not None
    auto_response_enabled,  \* the "Enable Auto-Response" checkbox
    confidence_threshold,   \* the "Question Confidence" slider
    clock               \* the wall clock, as an index into Timestamps

detectorVars   == <<text, returned>>
classifierVars == <<question, tier>>
routerVars     == <<claude_available, request, calls, result>>
sessionVars    == <<meeting_context, questions_detected, auto_responses>>
settingVars    == <<auto_response_enabled, confidence_threshold>>
appVars        == <<sessionVars, model_router, settingVars, clock>>
vars == <<text, returned, question, tier, claude_available, request, calls, result,
          meeting_context, questions_detected, auto_responses, model_router,
          auto_response_enabled, confidence_threshold, clock>>

\* The slider st.slider("Question Confidence", 0.5, 1.0, 0.75, 0.05).
ThresholdMin == 50
ThresholdMax == 100
ThresholdDefault == 75
ThresholdStep == 5

\* The session of the app as the script first builds it, and its widgets at
\* their defaults.
NewSession ==
    /\ meeting_context = <<>>
    /\ questions_detected = <<>>
    /\ auto_responses = <<>>
    /\ model_router = FALSE
    /\ auto_response_enabled = TRUE
    /\ confidence_threshold = ThresholdDefault
    /\ clock = 1

-----------------------------------------------------------------------------
(* Bounds of the input space.                                              *)

\* Longest generated input, counted in vocabulary pieces.
MaxPieces == 3

-----------------------------------------------------------------------------
(* Python string operations.                                               *)

\* str.isspace for the characters of the model's alphabet.
IsSpace(c) == c \in {" ", "\t", "\n"}

UpperAlpha == <<"A","B","C","D","E","F","G","H","I","J","K","L","M",
                "N","O","P","Q","R","S","T","U","V","W","X","Y","Z">>
LowerAlpha == <<"a","b","c","d","e","f","g","h","i","j","k","l","m",
                "n","o","p","q","r","s","t","u","v","w","x","y","z">>

LowerChar(c) ==
    IF \E i \in 1..26 : UpperAlpha[i] = c
    THEN LowerAlpha[CHOOSE i \in 1..26 : UpperAlpha[i] = c]
    ELSE c

\* str.lower()
Lower(s) == [i \in 1..Len(s) |-> LowerChar(s[i])]

RECURSIVE LStrip(_)
LStrip(s) ==
    IF s = <<>> THEN s
    ELSE IF IsSpace(Head(s)) THEN LStrip(Tail(s)) ELSE s

\* str.rstrip(chars): drops the trailing characters that belong to cs.
RECURSIVE RStripChars(_, _)
RStripChars(s, cs) ==
    IF s = <<>> THEN s
    ELSE IF s[Len(s)] \in cs THEN RStripChars(SubSeq(s, 1, Len(s) - 1), cs)
    ELSE s

\* str.strip()
Strip(s) == RStripChars(LStrip(s), {" ", "\t", "\n"})

\* str.endswith(c) for a one-character suffix.
EndsWith(s, c) == Len(s) > 0 /\ s[Len(s)] = c

\* sub in s
Contains(s, sub) ==
    \E i \in 0..(Len(s) - Len(sub)) : SubSeq(s, i + 1, i + Len(sub)) = sub

\* str.count(c) for a one-character argument.
Count(s, c) == Cardinality({i \in 1..Len(s) : s[i] = c})

\* The k-th smallest member of a set of positions.
Kth(S, k) == CHOOSE i \in S : Cardinality({j \in S : j <= i}) = k

\* str.split(): the maximal runs of non-whitespace characters, in order.
Split(s) ==
    LET starts == {i \in 1..Len(s) : ~IsSpace(s[i]) /\ (i = 1 \/ IsSpace(s[i - 1]))}
        ends   == {i \in 1..Len(s) : ~IsSpace(s[i]) /\ (i = Len(s) \/ IsSpace(s[i + 1]))}
    IN  [k \in 1..Cardinality(starts) |-> SubSeq(s, Kth(starts, k), Kth(ends, k))]

\* sep.join(parts)
RECURSIVE Join(_, _)
Join(parts, sep) ==
    IF parts = <<>> THEN <<>>
    ELSE IF Len(parts) = 1 THEN parts[1]
    ELSE parts[1] \o sep \o Join(Tail(parts), sep)

\* seq[:n]
Take(seq, n) == SubSeq(seq, 1, IF Len(seq) < n THEN Len(seq) ELSE n)

\* A split on the runs of '.' and '!' only, which leaves '?' in the pieces.
ReSplit_keeps_question_mark(s) ==
    LET IsMark(i) == s[i] \in {".", "!"}
        starts == {i \in 1..Len(s) : IsMark(i) /\ (i = 1 \/ ~IsMark(i - 1))}
        ends   == {i \in 1..Len(s) : IsMark(i) /\ (i = Len(s) \/ ~IsMark(i + 1))}
        runs   == Cardinality(starts)
    IN  [k \in 1..(runs + 1) |->
            SubSeq(s,
                   IF k = 1 THEN 1 ELSE Kth(ends, k - 1) + 1,
                   IF k = runs + 1 THEN Len(s) ELSE Kth(starts, k) - 1)]

\* re.split(r'[.!?]+', s): the pieces between the maximal runs of '.', '!'
\* and '?', the empty pieces at either end included.
ReSplit(s) ==
    LET IsMark(i) == s[i] \in {".", "!", "?"}
        starts == {i \in 1..Len(s) : IsMark(i) /\ (i = 1 \/ ~IsMark(i - 1))}
        ends   == {i \in 1..Len(s) : IsMark(i) /\ (i = Len(s) \/ ~IsMark(i + 1))}
        runs   == Cardinality(starts)
    IN  [k \in 1..(runs + 1) |->
            SubSeq(s,
                   IF k = 1 THEN 1 ELSE Kth(ends, k - 1) + 1,
                   IF k = runs + 1 THEN Len(s) ELSE Kth(starts, k) - 1)]

\* The concatenation of a sequence of strings.
RECURSIVE Concat(_)
Concat(parts) ==
    IF parts = <<>> THEN <<>> ELSE Head(parts) \o Concat(Tail(parts))

\* An exception leaving a function.
Raised(exc) == [raised |-> TRUE, exc |-> exc]

-----------------------------------------------------------------------------
(* QuestionDetector.                                                       *)

question_words ==
    { <<"w", "h", "a", "t">>,
      <<"w", "h", "e", "n">>,
      <<"w", "h", "e", "r", "e">>,
      <<"w", "h", "o">>,
      <<"w", "h", "o", "m">>,
      <<"w", "h", "o", "s", "e">>,
      <<"w", "h", "i", "c", "h">>,
      <<"w", "h", "y">>,
      <<"h", "o", "w">>,
      <<"c", "a", "n">>,
      <<"c", "o", "u", "l", "d">>,
      <<"w", "o", "u", "l", "d">>,
      <<"s", "h", "o", "u", "l", "d">>,
      <<"w", "i", "l", "l">>,
      <<"i", "s">>,
      <<"a", "r", "e">>,
      <<"w", "a", "s">>,
      <<"w", "e", "r", "e">>,
      <<"d", "o">>,
      <<"d", "o", "e", "s">>,
      <<"d", "i", "d">> }

\* The weights and the cut-off of is_question, in tenths.
EndsWithMarkWeight == 6
FirstWordWeight == 3
FirstThreeWeight == 2
QuestionCutoff == 5
ConfidenceCap == 10

\* text.endswith('?') after the strip
ends_with_mark(stripped) == EndsWith(stripped, "?")

\* first_word_hit on the first token as typed, not lower-cased.
first_word_hit_as_typed(stripped) ==
    RStripChars(Split(stripped)[1], {"?", ",", ":", ";"}) \in question_words

\* first_word in self.question_words
first_word_hit(stripped) ==
    RStripChars(Lower(Split(stripped)[1]), {"?", ",", ":", ";"}) \in question_words

\* Mutant of first_three_hit: only the first two tokens are joined.
first_three_hit_two_tokens(stripped) ==
    LET first_two == Lower(Join(Take(Split(stripped), 2), <<" ">>))
    IN  \E qw \in question_words : Contains(first_two, qw)

\* any(qw in first_three for qw in self.question_words): a substring test on
\* the first three tokens joined by single spaces.
first_three_hit(stripped) ==
    LET first_three == Lower(Join(Take(Split(stripped), 3), <<" ">>))
    IN  \E qw \in question_words : Contains(first_three, qw)

\* is_question(text): (is_q, confidence), or the exception it raises.
is_question(t) ==
    IF t = <<>> THEN [raised |-> FALSE, is_q |-> FALSE, confidence |-> 0]
    ELSE
      LET stripped == Strip(t)
          c1 == IF ends_with_mark(stripped) THEN EndsWithMarkWeight ELSE 0
      IN  IF Split(stripped) = <<>> THEN Raised("IndexError")
          ELSE
            LET c2 == c1 + (IF first_word_hit(stripped) THEN FirstWordWeight ELSE 0)
                c3 == c2 + (IF first_three_hit(stripped) THEN FirstThreeWeight ELSE 0)
            IN  [raised |-> FALSE,
                 is_q |-> c3 >= QuestionCutoff,
                 confidence |-> IF c3 < ConfidenceCap THEN c3 ELSE ConfidenceCap]

\* The thresholds of analyze_sentiment, in hundredths.
PositiveAbove == 10
NegativeBelow == -10

Abs(x) == IF x < 0 THEN -x ELSE x

NeutralDefault ==
    [sentiment |-> "neutral", polarity |-> 0, subjectivity |-> 0, confidence |-> 0]

\* What TextBlob(text).sentiment can do: fail, or yield a polarity and a
\* subjectivity.
Polarities == {-100, -11, -10, 0, 10, 11, 100}
Subjectivities == {0, 50}

EstimatorOutcomes ==
    {[fails |-> TRUE, polarity |-> 0, subjectivity |-> 0]}
    \cup [fails : {FALSE}, polarity : Polarities, subjectivity : Subjectivities]

\* What the estimator can do on t: the empty text has no word to score, so
\* when the estimator does not fail on it, it yields 0.0 and 0.0.
EstimatorOutcomesOn(t) ==
    IF t = <<>>
    THEN {est \in EstimatorOutcomes :
             est.fails \/ (est.polarity = 0 /\ est.subjectivity = 0)}
    ELSE EstimatorOutcomes

\* analyze_sentiment with the two thresholds taken inclusively.
analyze_sentiment_inclusive(t, est) ==
    IF est.fails THEN NeutralDefault
    ELSE [sentiment |-> IF est.polarity >= PositiveAbove THEN "positive"
                        ELSE IF est.polarity <= NegativeBelow THEN "negative"
                        ELSE "neutral",
          polarity |-> est.polarity,
          subjectivity |-> est.subjectivity,
          confidence |-> Abs(est.polarity)]

\* analyze_sentiment(text), est being what the estimator does on text.
analyze_sentiment(t, est) ==
    IF est.fails THEN NeutralDefault
    ELSE [sentiment |-> IF est.polarity > PositiveAbove THEN "positive"
                        ELSE IF est.polarity < NegativeBelow THEN "negative"
                        ELSE "neutral",
          polarity |-> est.polarity,
          subjectivity |-> est.subjectivity,
          confidence |-> Abs(est.polarity)]

\* The loop of extract_questions from sentence i on; ests[k] is what the
\* estimator does on the k-th sentence found to be a question.
RECURSIVE ExtractFrom(_, _, _, _, _)
ExtractFrom(sentences, i, ests, k, questions) ==
    IF i > Len(sentences) THEN [raised |-> FALSE, value |-> questions]
    ELSE
      LET sentence == Strip(sentences[i])
      IN  IF sentence = <<>> THEN ExtractFrom(sentences, i + 1, ests, k, questions)
          ELSE
            LET r == is_question(sentence)
            IN  IF r.raised THEN r
                ELSE IF r.is_q
                THEN ExtractFrom(sentences, i + 1, ests, k + 1,
                         Append(questions,
                                [text |-> sentence,
                                 confidence |-> r.confidence,
                                 sentiment |-> analyze_sentiment(sentence, ests[k])]))
                ELSE ExtractFrom(sentences, i + 1, ests, k, questions)

\* extract_questions(text)
extract_questions(t, ests) == ExtractFrom(ReSplit(t), 1, ests, 1, <<>>)

\* How many sentences of t the loop hands to analyze_sentiment.
SentimentCalls(t) ==
    LET trimmed == [i \in 1..Len(ReSplit(t)) |-> Strip(ReSplit(t)[i])]
    IN  Cardinality({i \in 1..Len(trimmed) :
                        /\ trimmed[i] # <<>>
                        /\ ~is_question(trimmed[i]).raised
                        /\ is_question(trimmed[i]).is_q})

-----------------------------------------------------------------------------
(* Inputs of the detector.                                                 *)

TxtSkyIsBlue == <<"T", "h", "e", " ", "s", "k", "y", " ", "i", "s", " ", "b", "l", "u", "e", ".">>
TxtReportFine == <<"T", "h", "i", "s", " ", "r", "e", "p", "o", "r", "t", " ", "l", "o", "o", "k", "s", " ", "f", "i", "n", "e">>
TxtDeadline == <<"W", "h", "a", "t", " ", "i", "s", " ", "t", "h", "e", " ", "d", "e", "a", "d", "l", "i", "n", "e", "?">>
TxtFinished == <<"Y", "o", "u", " ", "f", "i", "n", "i", "s", "h", "e", "d", " ", "t", "h", "e", " ", "r", "e", "p", "o", "r", "t", "?">>
TxtFourthToken == <<"s", "k", "y", " ", "s", "k", "y", " ", "s", "k", "y", " ", "i", "s">>
TxtTwoSentences == <<"D", "o", "n", "e", ".", " ", "W", "h", "a", "t", " ", "n", "o", "w", "?", "!", " ", "Y", "o", "u", " ", "a", "g", "r", "e", "e", "?">>
TxtBlank == <<" ", "\t", " ">>

\* The vocabulary the generated texts are spelled from.
DetectorPieces ==
    { <<"w", "h", "a", "t">>, <<"I", "s">>, <<"t", "h", "i", "s">>, <<"s", "k", "y">>,
      <<" ">>, <<"?">>, <<".">>, <<",">>, <<"!">> }

\* Every concatenation of at most n pieces of vocabulary.
Spelled(vocabulary, n) ==
    {Concat(ps) : ps \in UNION {[1..k -> vocabulary] : k \in 0..n}}

Texts ==
    Spelled(DetectorPieces, MaxPieces)
    \cup {TxtSkyIsBlue, TxtReportFine, TxtDeadline, TxtFinished, TxtFourthToken,
          TxtTwoSentences, TxtBlank}

NoCall == [op |-> "none"]

\* A call of is_question(text).
IsQuestion ==
    /\ returned = NoCall
    /\ returned' = [op |-> "is_question", ret |-> is_question(text)]
    /\ UNCHANGED <<text, classifierVars, routerVars, appVars>>

\* A call of analyze_sentiment(text); est records what the estimator did.
AnalyzeSentiment ==
    /\ returned = NoCall
    /\ \E est \in EstimatorOutcomesOn(text) :
          returned' = [op |-> "analyze_sentiment",
                       est |-> est,
                       ret |-> [raised |-> FALSE, value |-> analyze_sentiment(text, est)]]
    /\ UNCHANGED <<text, classifierVars, routerVars, appVars>>

\* A call of extract_questions(text).
ExtractQuestions ==
    /\ returned = NoCall
    /\ \E ests \in [1..SentimentCalls(text) -> EstimatorOutcomes] :
          returned' = [op |-> "extract_questions", ret |-> extract_questions(text, ests)]
    /\ UNCHANGED <<text, classifierVars, routerVars, appVars>>

InitDetector ==
    /\ text \in Texts
    /\ returned = NoCall
    /\ question = <<>>
    /\ tier = "none"
    /\ claude_available = FALSE
    /\ request = NoCall
    /\ calls = <<>>
    /\ result = NoCall
    /\ NewSession

NextDetector == IsQuestion \/ AnalyzeSentiment \/ ExtractQuestions

SpecDetector == InitDetector /\ [][NextDetector]_vars

-----------------------------------------------------------------------------
(* ModelRouter.classify_question.                                          *)

complex_keywords ==
    { <<"a", "n", "a", "l", "y", "z", "e">>,
      <<"c", "o", "m", "p", "a", "r", "e">>,
      <<"c", "o", "n", "t", "r", "a", "s", "t">>,
      <<"e", "v", "a", "l", "u", "a", "t", "e">>,
      <<"e", "x", "p", "l", "a", "i", "n">>,
      <<"s", "t", "r", "a", "t", "e", "g", "i", "c">>,
      <<"a", "r", "c", "h", "i", "t", "e", "c", "t", "u", "r", "e">>,
      <<"d", "e", "s", "i", "g", "n">>,
      <<"i", "m", "p", "l", "e", "m", "e", "n", "t">>,
      <<"c", "a", "l", "c", "u", "l", "a", "t", "e">>,
      <<"e", "s", "t", "i", "m", "a", "t", "e">>,
      <<"p", "r", "e", "d", "i", "c", "t">>,
      <<"l", "e", "g", "a", "l">>,
      <<"c", "o", "m", "p", "l", "i", "a", "n", "c", "e">> }

\* The word counts above which a question is complex, and moderate.
ComplexWordCount == 25
ModerateWordCount == 15

\* Mutant of has_complex: the containment is tested the other way round,
\* a word of the question inside a keyword.
has_complex_word_in_keyword(question_lower) ==
    \E kw \in complex_keywords :
        \E k \in 1..Len(Split(question_lower)) :
            Contains(kw, RStripChars(Split(question_lower)[k], {"?"}))

\* has_complex = any(kw in question_lower for kw in self.complex_keywords)
has_complex(question_lower) ==
    \E kw \in complex_keywords : Contains(question_lower, kw)

\* Mutant of multi_part: ' and ' is looked for in the question as typed.
multi_part_as_typed(q, question_lower) ==
    Count(q, "?") > 1 \/ Contains(q, <<" ", "a", "n", "d", " ">>)

\* multi_part = question.count('?') > 1 or ' and ' in question_lower
multi_part(q, question_lower) ==
    Count(q, "?") > 1 \/ Contains(question_lower, <<" ", "a", "n", "d", " ">>)

\* classify_question(question)
classify_question(q) ==
    LET question_lower == Lower(q)
        word_count == Len(Split(q))
    IN  IF has_complex(question_lower) \/ word_count > ComplexWordCount THEN "complex"
        ELSE IF multi_part(q, question_lower) \/ word_count > ModerateWordCount
             THEN "moderate"
        ELSE "simple"

-----------------------------------------------------------------------------
(* Inputs of the classifier.                                               *)

QArchitect == <<"H", "o", "w", " ", "d", "o", " ", "w", "e", " ", "a", "r", "c", "h", "i", "t", "e", "c", "t", " ", "t", "h", "i", "s", "?">>
QArchitecture == <<"H", "o", "w", " ", "d", "o", " ", "w", "e", " ", "d", "e", "s", "i", "g", "n", " ", "t", "h", "e", " ", "a", "r", "c", "h", "i", "t", "e", "c", "t", "u", "r", "e", "?">>
QTimeAndWhere == <<"W", "h", "a", "t", " ", "t", "i", "m", "e", " ", "i", "s", " ", "i", "t", " ", "a", "n", "d", " ", "w", "h", "e", "r", "e", "?">>

ClassifierPieces ==
    { <<"e", "x", "p", "l", "a", "i", "n">>, <<"D", "E", "S", "I", "G", "N">>, <<"a", "r", "c", "h", "i", "t", "e", "c", "t">>,
      <<"a", "n", "d">>, <<"A", "n", "d">>, <<" ">>, <<"?">> }

\* n more one-letter words.
Padding(n) == [i \in 1..(2 * n) |-> IF i % 2 = 1 THEN " " ELSE "x"]

\* The numbers of words added to a spelled question: they put its word count
\* on either side of both limits.
PaddingCounts ==
    {0} \cup {ModerateWordCount + d : d \in {-1, 0, 1}}
        \cup {ComplexWordCount + d : d \in {-1, 0, 1}}

Questions ==
    {s \o Padding(n) : s \in Spelled(ClassifierPieces, MaxPieces), n \in PaddingCounts}
    \cup {QArchitect, QArchitecture, QTimeAndWhere}

\* A call of classify_question(question).
ClassifyQuestion ==
    /\ tier = "none"
    /\ tier' = classify_question(question)
    /\ UNCHANGED <<question, detectorVars, routerVars, appVars>>

InitClassifier ==
    /\ question \in Questions
    /\ tier = "none"
    /\ text = <<>>
    /\ returned = NoCall
    /\ claude_available = FALSE
    /\ request = NoCall
    /\ calls = <<>>
    /\ result = NoCall
    /\ NewSession

NextClassifier == ClassifyQuestion

SpecClassifier == InitClassifier /\ [][NextClassifier]_vars

-----------------------------------------------------------------------------
(* ModelRouter.route_and_query.                                            *)

\* complexity=None
NoneValue == "<None>"

ErrorPrefix == <<"E", "r", "r", "o", "r", ":", " ">>
PromptHead == <<"M", "e", "e", "t", "i", "n", "g", " ", "C", "o", "n", "t", "e", "x", "t", ":", "\n">>
PromptMid == <<"\n", "\n", "Q", "u", "e", "s", "t", "i", "o", "n", ":", " ">>
PromptTail == <<"\n", "\n", "P", "r", "o", "v", "i", "d", "e", " ", "a", " ", "c", "l", "e", "a", "r", ",", " ", "c", "o", "n", "c", "i", "s", "e", " ", "a", "n", "s", "w", "e", "r", " ", "b", "a", "s", "e", "d", " ", "o", "n", " ", "t", "h", "e", " ", "m", "e", "e", "t", "i", "n", "g", " ", "c", "o", "n", "t", "e", "x", "t", ".">>

\* The f-string of route_and_query.
build_prompt(q, context) == PromptHead \o context \o PromptMid \o q \o PromptTail

\* One attempt on a backend: outcome.ok says whether the client answers, and
\* outcome.text is the answer's text or the exception's message.  The except
\* clause turns the exception into the returned string.
query_gemini_flash(prompt, outcome) ==
    [response |-> IF outcome.ok THEN outcome.text ELSE ErrorPrefix \o outcome.text,
     calls |-> <<[backend |-> "gemini_flash", prompt |-> prompt]>>]

\* Mutant of query_gemini_pro: a failed attempt is made a second time.
query_gemini_pro_retry(prompt, outcome) ==
    [response |-> IF outcome.ok THEN outcome.text ELSE ErrorPrefix \o outcome.text,
     calls |-> IF outcome.ok
               THEN <<[backend |-> "gemini_pro", prompt |-> prompt]>>
               ELSE <<[backend |-> "gemini_pro", prompt |-> prompt],
                      [backend |-> "gemini_pro", prompt |-> prompt]>>]

query_gemini_pro(prompt, outcome) ==
    [response |-> IF outcome.ok THEN outcome.text ELSE ErrorPrefix \o outcome.text,
     calls |-> <<[backend |-> "gemini_pro", prompt |-> prompt]>>]

query_claude(prompt, outcome) ==
    [response |-> IF outcome.ok THEN outcome.text ELSE ErrorPrefix \o outcome.text,
     calls |-> <<[backend |-> "claude", prompt |-> prompt]>>]

\* The three branches of "Route based on complexity": the model name and
\* the query made.
simple_route(prompt, outcome) ==
    [model_name |-> "Gemini 2.0 Flash", query |-> query_gemini_flash(prompt, outcome)]

\* Mutant of moderate_route: the branch queries the fast backend.
moderate_route_flash(prompt, outcome) ==
    [model_name |-> "Gemini 1.5 Pro", query |-> query_gemini_flash(prompt, outcome)]

moderate_route(prompt, outcome) ==
    [model_name |-> "Gemini 1.5 Pro", query |-> query_gemini_pro(prompt, outcome)]

\* Mutant of complex_route: the availability flag is not consulted.
complex_route_ignores_flag(prompt, available, outcome) ==
    [model_name |-> "Claude Sonnet 4.5", query |-> query_claude(prompt, outcome)]

complex_route(prompt, available, outcome) ==
    IF available
    THEN [model_name |-> "Claude Sonnet 4.5", query |-> query_claude(prompt, outcome)]
    ELSE [model_name |-> "Gemini 1.5 Pro", query |-> query_gemini_pro(prompt, outcome)]

\* route_and_query classifying the context together with the question.
route_and_query_reads_context(q, context, complexity_arg, available, outcome) ==
    LET complexity == IF complexity_arg = NoneValue
                      THEN classify_question(context \o <<" ">> \o q)
                      ELSE complexity_arg
        prompt == build_prompt(q, context)
        route == IF complexity = "simple" THEN simple_route(prompt, outcome)
                 ELSE IF complexity = "moderate" THEN moderate_route(prompt, outcome)
                 ELSE complex_route(prompt, available, outcome)
    IN  [ret |-> [raised |-> FALSE,
                  value |-> [response |-> route.query.response,
                             model_used |-> route.model_name,
                             complexity |-> complexity]],
         calls |-> route.query.calls]

\* route_and_query(question, context, complexity) on a router whose flag is
\* `available`: the record returned and the backend calls made.  The flag is
\* read and never assigned.
route_and_query(q, context, complexity_arg, available, outcome) ==
    LET complexity == IF complexity_arg = NoneValue THEN classify_question(q)
                      ELSE complexity_arg
        prompt == build_prompt(q, context)
        route == IF complexity = "simple" THEN simple_route(prompt, outcome)
                 ELSE IF complexity = "moderate" THEN moderate_route(prompt, outcome)
                 ELSE complex_route(prompt, available, outcome)
    IN  [ret |-> [raised |-> FALSE,
                  value |-> [response |-> route.query.response,
                             model_used |-> route.model_name,
                             complexity |-> complexity]],
         calls |-> route.query.calls]

-----------------------------------------------------------------------------
(* Inputs of the router.                                                   *)

QLong == <<"P", "l", "e", "a", "s", "e", " ", "t", "e", "l", "l", " ", "m", "e", " ", "s", "o", " ", "s", "o", " ", "s", "o", " ", "s", "o", " ", "s", "o", " ", "s", "o", " ", "s", "o", " ", "s", "o", " ", "s", "o", " ", "s", "o", " ", "s", "o", " ", "s", "o", " ", "s", "o", " ", "s", "o", " ", "s", "o", " ", "s", "o", " ", "s", "o", " ", "s", "o", " ", "s", "o", " ", "s", "o", " ", "s", "o", " ", "s", "o", " ", "s", "o", "?">>
QMedium == <<"T", "e", "l", "l", " ", "m", "e", " ", "s", "o", " ", "s", "o", " ", "s", "o", " ", "s", "o", " ", "s", "o", " ", "s", "o", " ", "s", "o", " ", "s", "o", " ", "s", "o", " ", "s", "o", " ", "s", "o", " ", "s", "o", " ", "s", "o", " ", "s", "o", "?">>
CtxOne == <<"[", "1", "0", ":", "0", "0", ":", "0", "0", "]", " ", "A", "n", "n", ":", " ", "H", "i">>
CtxTwo == <<"[", "1", "0", ":", "0", "0", ":", "0", "0", "]", " ", "A", "n", "n", ":", " ", "H", "i", "\n", "[", "1", "0", ":", "0", "0", ":", "0", "5", "]", " ", "B", "o", "b", ":", " ", "I", "s", " ", "t", "h", "e", " ", "d", "e", "s", "i", "g", "n", " ", "d", "o", "n", "e">>

RouterQuestions == {QArchitect, QArchitecture, QTimeAndWhere, QLong, QMedium}
Contexts == {CtxOne, CtxTwo}

\* No argument, the three tags, and a string that is none of them.
ComplexityArgs == {NoneValue, "simple", "moderate", "complex", "expert"}

BackendOutcomes == [ok : BOOLEAN, text : {<<"Y", "e", "s">>, <<"q", "u", "o", "t", "a">>}]

\* A call of route_and_query on the router.
RouteAndQuery ==
    /\ \E q \in RouterQuestions, context \in Contexts,
          complexity \in ComplexityArgs, outcome \in BackendOutcomes :
          LET r == route_and_query(q, context, complexity, claude_available, outcome)
          IN  /\ request' = [op |-> "route_and_query", question |-> q,
                             context |-> context, complexity |-> complexity,
                             outcome |-> outcome]
              /\ result' = r.ret
              /\ calls' = r.calls
    /\ UNCHANGED <<claude_available, detectorVars, classifierVars, appVars>>

\* ModelRouter.__init__ has run: the Claude client was built, or building
\* it raised.
InitRouter ==
    /\ claude_available \in BOOLEAN
    /\ request = NoCall
    /\ calls = <<>>
    /\ result = NoCall
    /\ text = <<>>
    /\ returned = NoCall
    /\ question = <<>>
    /\ tier = "none"
    /\ NewSession

NextRouter == RouteAndQuery

SpecRouter == InitRouter /\ [][NextRouter]_vars

-----------------------------------------------------------------------------
(* The advanced app (src/app_advanced.py): session state and handlers.     *)

\* Bounds of the session: entries in the transcript of the short sessions
\* and of the long ones.
MaxEntries == 2
MaxTranscript == 21

\* meeting_context[-20:]
ContextWindow == 20

\* What datetime.now().strftime("%H:%M:%S") gives as the clock advances.
Timestamps == <<<<"1", "0", ":", "0", "0", ":", "0", "0">>, <<"1", "0", ":", "0", "0", ":", "0", "5">>>>

\* seq[-n:]
LastEntries(seq, n) ==
    SubSeq(seq, IF Len(seq) > n THEN Len(seq) - n + 1 ELSE 1, Len(seq))

\* f"[{item['timestamp']}] {item['speaker']}: {item['text']}"
context_line(item) ==
    <<"[">> \o item.timestamp \o <<"]", " ">> \o item.speaker \o <<":", " ">> \o item.text

\* get_context_text reading the first entries instead of the last.
get_context_text_oldest(entries) ==
    IF entries = <<>> THEN <<>>
    ELSE LET first == Take(entries, ContextWindow)
         IN  Join([k \in 1..Len(first) |-> context_line(first[k])], <<"\n">>)

\* get_context_text() on the session whose transcript is `entries`.
get_context_text(entries) ==
    IF entries = <<>> THEN <<>>
    ELSE LET recent == LastEntries(entries, ContextWindow)
         IN  Join([k \in 1..Len(recent) |-> context_line(recent[k])], <<"\n">>)

\* get_context_text() of the basic app (src/app.py), which has no test for
\* the empty transcript.
get_context_text_basic(entries) ==
    LET recent == LastEntries(entries, ContextWindow)
    IN  Join([k \in 1..Len(recent) |-> context_line(recent[k])], <<"\n">>)

\* auto_respond_to_question adding the new record in front.
auto_respond_to_question_newest_first(question_data, session, outcome) ==
    IF ~session.model_router THEN [auto_responses |-> session.auto_responses, calls |-> <<>>]
    ELSE
      LET context == get_context_text(session.meeting_context)
      IN  IF context = <<>>
          THEN [auto_responses |-> session.auto_responses, calls |-> <<>>]
          ELSE
            LET r == route_and_query(question_data.text, context, NoneValue,
                                     session.claude_available, outcome)
            IN  [auto_responses |->
                     <<[timestamp |-> session.now,
                        question |-> question_data.text,
                        response |-> r.ret.value.response,
                        model |-> r.ret.value.model_used,
                        complexity |-> r.ret.value.complexity,
                        sentiment |-> question_data.sentiment]>>
                     \o session.auto_responses,
                 calls |-> r.calls]

\* auto_respond_to_question(question_data): the auto_responses list after
\* it and the backend calls it made.  `session` holds what it reads:
\* meeting_context, auto_responses, model_router, the router's flag and
\* the time.
auto_respond_to_question(question_data, session, outcome) ==
    IF ~session.model_router THEN [auto_responses |-> session.auto_responses, calls |-> <<>>]
    ELSE
      LET context == get_context_text(session.meeting_context)
      IN  IF context = <<>>
          THEN [auto_responses |-> session.auto_responses, calls |-> <<>>]
          ELSE
            LET r == route_and_query(question_data.text, context, NoneValue,
                                     session.claude_available, outcome)
            IN  [auto_responses |->
                     Append(session.auto_responses,
                            [timestamp |-> session.now,
                             question |-> question_data.text,
                             response |-> r.ret.value.response,
                             model |-> r.ret.value.model_used,
                             complexity |-> r.ret.value.complexity,
                             sentiment |-> question_data.sentiment]),
                 calls |-> r.calls]

\* The test before auto_respond_to_question, without the checkbox.
auto_respond_wanted_unchecked(q, enabled, threshold, router) ==
    q.confidence * 10 >= threshold /\ router

\* The test before auto_respond_to_question, without the threshold.
auto_respond_wanted_any_confidence(q, enabled, threshold, router) ==
    enabled /\ router

\* if auto_response_enabled and q['confidence'] >= confidence_threshold:
\*     if st.session_state.model_router:
auto_respond_wanted(q, enabled, threshold, router) ==
    enabled /\ q.confidence * 10 >= threshold /\ router

\* The loop over the questions of a submitted text, from question i on:
\* the two lists after it and the backend calls made.
RECURSIVE SubmitLoop(_, _, _, _, _, _)
SubmitLoop(questions, i, session, detected, made, outcomes) ==
    IF i > Len(questions)
    THEN [questions_detected |-> detected,
          auto_responses |-> session.auto_responses,
          calls |-> made]
    ELSE
      LET q == questions[i]
      IN  IF auto_respond_wanted(q, session.enabled, session.threshold, session.model_router)
          THEN LET a == auto_respond_to_question(q, session, outcomes[i])
               IN  SubmitLoop(questions, i + 1,
                              [session EXCEPT !.auto_responses = a.auto_responses],
                              Append(detected, q), made \o a.calls, outcomes)
          ELSE SubmitLoop(questions, i + 1, session, Append(detected, q), made, outcomes)

\* The options of the "Manual Override" selectbox.
ManualModels == {"Auto (Smart Routing)", "Gemini Flash", "Gemini Pro", "Claude Sonnet"}

\* complexity_map.get(manual_model, "moderate")
complexity_map(manual_model) ==
    CASE manual_model = "Gemini Flash" -> "simple"
      [] manual_model = "Gemini Pro" -> "moderate"
      [] manual_model = "Claude Sonnet" -> "complex"
      [] OTHER -> "moderate"

summary_prompt == <<"A", "n", "a", "l", "y", "z", "e", " ", "t", "h", "i", "s", " ", "m", "e", "e", "t", "i", "n", "g", " ", "a", "n", "d", " ", "p", "r", "o", "v", "i", "d", "e", " ", "a", " ", "c", "o", "m", "p", "r", "e", "h", "e", "n", "s", "i", "v", "e", " ", "s", "u", "m", "m", "a", "r", "y", " ", "w", "i", "t", "h", ":", "\n", "\n", "1", ".", " ", "*", "*", "K", "e", "y", " ", "D", "i", "s", "c", "u", "s", "s", "i", "o", "n", " ", "P", "o", "i", "n", "t", "s", "*", "*", " ", "-", " ", "M", "a", "i", "n", " ", "t", "o", "p", "i", "c", "s", " ", "c", "o", "v", "e", "r", "e", "d", "\n", "2", ".", " ", "*", "*", "D", "e", "c", "i", "s", "i", "o", "n", "s", " ", "M", "a", "d", "e", "*", "*", " ", "-", " ", "C", "o", "n", "c", "r", "e", "t", "e", " ", "d", "e", "c", "i", "s", "i", "o", "n", "s", " ", "a", "n", "d", " ", "a", "g", "r", "e", "e", "m", "e", "n", "t", "s", " ", " ", "\n", "3", ".", " ", "*", "*", "A", "c", "t", "i", "o", "n", " ", "I", "t", "e", "m", "s", "*", "*", " ", "-", " ", "T", "a", "s", "k", "s", " ", "a", "n", "d", " ", "a", "s", "s", "i", "g", "n", "m", "e", "n", "t", "s", " ", "w", "i", "t", "h", " ", "o", "w", "n", "e", "r", "s", "\n", "4", ".", " ", "*", "*", "Q", "u", "e", "s", "t", "i", "o", "n", "s", " ", "R", "a", "i", "s", "e", "d", "*", "*", " ", "-", " ", "I", "m", "p", "o", "r", "t", "a", "n", "t", " ", "q", "u", "e", "s", "t", "i", "o", "n", "s", " ", "d", "i", "s", "c", "u", "s", "s", "e", "d", "\n", "5", ".", " ", "*", "*", "S", "e", "n", "t", "i", "m", "e", "n", "t", " ", "A", "n", "a", "l", "y", "s", "i", "s", "*", "*", " ", "-", " ", "O", "v", "e", "r", "a", "l", "l", " ", "t", "o", "n", "e", " ", "o", "f", " ", "t", "h", "e", " ", "m", "e", "e", "t", "i", "n", "g", "\n", "6", ".", " ", "*", "*", "N", "e", "x", "t", " ", "S", "t", "e", "p", "s", "*", "*", " ", "-", " ", "R", "e", "c", "o", "m", "m", "e", "n", "d", "e", "d", " ", "f", "o", "l", "l", "o", "w", "-", "u", "p", " ", "a", "c", "t", "i", "o", "n", "s", "\n", "\n", "B", "e", " ", "s", "p", "e", "c", "i", "f", "i", "c", " ", "a", "n", "d", " ", "r", "e", "f", "e", "r", "e", "n", "c", "e", " ", "a", "c", "t", "u", "a", "l", " ", "d", "i", "s", "c", "u", "s", "s", "i", "o", "n", " ", "p", "o", "i", "n", "t", "s", ".">>

-----------------------------------------------------------------------------
(* Inputs of the app.                                                      *)

SpeakerAnn == <<"A", "n", "n">>
TxtHi == <<"H", "i">>
TxtWhyDesign == <<"W", "h", "y", " ", "d", "e", "s", "i", "g", "n", " ", "t", "h", "i", "s", "?", " ", "I", "s", " ", "i", "t", " ", "d", "o", "n", "e">>
QIsItDone == <<"I", "s", " ", "i", "t", " ", "d", "o", "n", "e", "?">>

\* Transcript texts: without a question, with two questions of which the
\* first holds a trigger word, and the empty text area.
AppTexts == {TxtReportFine, TxtWhyDesign, <<>>}

\* The stops of the slider the sessions move it to.
SliderStops == {ThresholdMin, ThresholdMin + ThresholdStep}

AppEstimatorOutcomes ==
    {est \in EstimatorOutcomes : ~est.fails /\ est.polarity = 100 /\ est.subjectivity = 50}

AppBackendOutcomes ==
    {o \in BackendOutcomes : o.ok = (o.text = <<"Y", "e", "s">>)}

BackendAnswers == {o \in AppBackendOutcomes : o.ok}

-----------------------------------------------------------------------------
(* Handlers of the app.                                                    *)

\* The "Initialize Models" button: initialize_models builds a ModelRouter,
\* whose Claude client is built or not, or fails and leaves the session as
\* it was (as does a click without a key or a project id).
InitializeModels ==
    /\ \E built \in BOOLEAN, available \in BOOLEAN :
          /\ model_router' = (built \/ model_router)
          /\ claude_available' = IF built THEN available ELSE claude_available
          /\ request' = [op |-> "initialize_models", built |-> built]
    /\ calls' = <<>>
    /\ result' = NoCall
    /\ UNCHANGED <<sessionVars, settingVars, clock, detectorVars, classifierVars>>

\* The "Enable Auto-Response" checkbox is toggled.
SetAutoResponse ==
    /\ auto_response_enabled' = ~auto_response_enabled
    /\ request' = [op |-> "settings"]
    /\ calls' = <<>>
    /\ result' = NoCall
    /\ UNCHANGED <<sessionVars, model_router, claude_available, confidence_threshold,
                   clock, detectorVars, classifierVars>>

\* The "Question Confidence" slider is moved.
SetThreshold ==
    /\ \E stop \in SliderStops \ {confidence_threshold} :
          confidence_threshold' = stop
    /\ request' = [op |-> "settings"]
    /\ calls' = <<>>
    /\ result' = NoCall
    /\ UNCHANGED <<sessionVars, model_router, claude_available, auto_response_enabled,
                   clock, detectorVars, classifierVars>>

\* The "Add to Transcript" button of the form, with a speaker and a text
\* typed in (or not): the entry is appended, every question found in the
\* text is appended to questions_detected and answered when wanted.
SubmitTranscript(speakers, texts, estimators, backends, limit) ==
    /\ Len(meeting_context) < limit
    /\ \E speaker \in speakers, said \in texts :
          IF speaker = <<>> \/ said = <<>>
          THEN /\ request' = [op |-> "submit", speaker |-> speaker, text |-> said]
               /\ calls' = <<>>
               /\ UNCHANGED sessionVars
          ELSE \E ests \in [1..SentimentCalls(said) -> estimators] :
               \E outcomes \in [1..SentimentCalls(said) -> backends] :
                  LET entries == Append(meeting_context,
                                        [timestamp |-> Timestamps[clock],
                                         speaker |-> speaker,
                                         text |-> said])
                      questions == extract_questions(said, ests).value
                      session == [meeting_context |-> entries,
                                  auto_responses |-> auto_responses,
                                  model_router |-> model_router,
                                  claude_available |-> claude_available,
                                  enabled |-> auto_response_enabled,
                                  threshold |-> confidence_threshold,
                                  now |-> Timestamps[clock]]
                      after == SubmitLoop(questions, 1, session, questions_detected,
                                          <<>>, outcomes)
                  IN  /\ meeting_context' = entries
                      /\ questions_detected' = after.questions_detected
                      /\ auto_responses' = after.auto_responses
                      /\ calls' = after.calls
                      /\ request' = [op |-> "submit", speaker |-> speaker,
                                     text |-> said, ests |-> ests]
    /\ result' = NoCall
    /\ UNCHANGED <<model_router, claude_available, settingVars, clock,
                   detectorVars, classifierVars>>

\* The "Clear" button of the form.
ClearTranscript ==
    /\ meeting_context' = <<>>
    /\ questions_detected' = <<>>
    /\ auto_responses' = <<>>
    /\ request' = [op |-> "clear"]
    /\ calls' = <<>>
    /\ result' = NoCall
    /\ UNCHANGED <<model_router, claude_available, settingVars, clock,
                   detectorVars, classifierVars>>

\* The "Ask" form: a question typed in and sent to the router, classified
\* by the router or with the complexity of the model selected.
AskManually(asked, models, backends) ==
    /\ \E manual_question \in asked, manual_model \in models, outcome \in backends :
          LET context == get_context_text(meeting_context)
              r == IF manual_model = "Auto (Smart Routing)"
                   THEN route_and_query(manual_question, context, NoneValue,
                                        claude_available, outcome)
                   ELSE route_and_query(manual_question, context,
                                        complexity_map(manual_model),
                                        claude_available, outcome)
          IN  /\ request' = [op |-> "ask", question |-> manual_question,
                             manual_model |-> manual_model]
              /\ IF model_router /\ context # <<>>
                 THEN calls' = r.calls /\ result' = r.ret
                 ELSE calls' = <<>> /\ result' = NoCall
    /\ UNCHANGED <<sessionVars, model_router, claude_available, settingVars, clock,
                   detectorVars, classifierVars>>

\* The "Generate AI Summary" button.
GenerateSummary(backends) ==
    /\ \E outcome \in backends :
          LET context == get_context_text(meeting_context)
              r == route_and_query(summary_prompt, context, "complex",
                                   claude_available, outcome)
          IN  /\ request' = [op |-> "summary"]
              /\ IF model_router /\ meeting_context # <<>>
                 THEN calls' = r.calls /\ result' = r.ret
                 ELSE calls' = <<>> /\ result' = NoCall
    /\ UNCHANGED <<sessionVars, model_router, claude_available, settingVars, clock,
                   detectorVars, classifierVars>>

\* Time passes.
Tick ==
    /\ clock < Len(Timestamps)
    /\ clock' = clock + 1
    /\ UNCHANGED <<sessionVars, model_router, settingVars, routerVars,
                   detectorVars, classifierVars>>

InitApp ==
    /\ NewSession
    /\ claude_available = FALSE
    /\ request = NoCall
    /\ calls = <<>>
    /\ result = NoCall
    /\ text = <<>>
    /\ returned = NoCall
    /\ question = <<>>
    /\ tier = "none"

\* Short sessions with every handler and every kind of text.
SubmitShort ==
    SubmitTranscript({SpeakerAnn}, AppTexts, AppEstimatorOutcomes,
                     AppBackendOutcomes, MaxEntries)

AskShort ==
    AskManually({QIsItDone}, {"Auto (Smart Routing)", "Claude Sonnet"}, BackendAnswers)

SummaryShort == GenerateSummary(BackendAnswers)

NextApp ==
    \/ InitializeModels
    \/ SetAutoResponse
    \/ SetThreshold
    \/ SubmitShort
    \/ ClearTranscript
    \/ AskShort
    \/ SummaryShort

SpecApp == InitApp /\ [][NextApp]_vars

\* Long sessions: transcripts longer than the context window, of entries
\* that differ by their time.
SubmitLong ==
    SubmitTranscript({SpeakerAnn}, {TxtHi}, AppEstimatorOutcomes,
                     AppBackendOutcomes, MaxTranscript)

AskLong == AskManually({QIsItDone}, {"Auto (Smart Routing)"}, BackendAnswers)

SummaryLong == GenerateSummary(BackendAnswers)

NextContext ==
    \/ InitializeModels
    \/ SubmitLong
    \/ ClearTranscript
    \/ AskLong
    \/ SummaryLong
    \/ Tick

SpecContext == InitApp /\ [][NextContext]_vars

-----------------------------------------------------------------------------
(* Properties of route_and_query, under SpecRouter.                        *)

Called == request.op = "route_and_query"

\* The complexity tag in effect in a call: the argument, or the tag
\* classify_question gives the question when there is no argument.
EffectiveComplexity(r) ==
    IF r.complexity = NoneValue THEN classify_question(r.question) ELSE r.complexity

\* The backends a sequence of calls went to, in order.
BackendsOf(cs) == [i \in 1..Len(cs) |-> cs[i].backend]

\* The human-readable name of each backend.
BackendName(b) ==
    CASE b = "gemini_flash" -> "Gemini 2.0 Flash"
      [] b = "gemini_pro"   -> "Gemini 1.5 Pro"
      [] b = "claude"       -> "Claude Sonnet 4.5"

\* C1: on a router whose advanced backend is unavailable, every call whose
\* complexity is 'complex' (given, or classified) reports "Gemini 1.5 Pro",
\* queries the balanced backend and no other, and returns complexity
\* 'complex'; and no call changes the availability flag.
C1_UnavailableDowngrades ==
    [][(~claude_available /\ request'.op = "route_and_query") =>
          /\ ~claude_available'
          /\ (EffectiveComplexity(request') = "complex" =>
                /\ ~result'.raised
                /\ result'.value.model_used = "Gemini 1.5 Pro"
                /\ result'.value.model_used # "Claude Sonnet 4.5"
                /\ BackendsOf(calls') = <<"gemini_pro">>
                /\ result'.value.complexity = "complex")]_vars

C1_Witness ==
    /\ Called
    /\ ~claude_available
    /\ request.complexity = NoneValue
    /\ result.value.complexity = "complex"
    /\ result.value.model_used = "Gemini 1.5 Pro"

C3_FailureBecomesErrorString ==
    (Called /\ ~request.outcome.ok) =>
        LET success == route_and_query(request.question, request.context,
                                       request.complexity, claude_available,
                                       [ok |-> TRUE, text |-> request.outcome.text])
        IN  /\ ~result.raised
            /\ DOMAIN result.value = {"response", "model_used", "complexity"}
            /\ result.value.response = ErrorPrefix \o request.outcome.text
            /\ result.value.model_used = success.ret.value.model_used
            /\ result.value.complexity = success.ret.value.complexity
            /\ Len(calls) = 1
            /\ BackendsOf(calls) = BackendsOf(success.calls)

C3_Witness ==
    /\ Called
    /\ ~request.outcome.ok
    /\ claude_available
    /\ BackendsOf(calls) = <<"claude">>
    /\ SubSeq(result.value.response, 1, Len(ErrorPrefix)) = ErrorPrefix

\* C4 (as claimed): the complexity of every returned record is one of the
\* three tags, whatever complexity argument the caller gives.
C4_AlwaysOneOfThreeTags ==
    Called => result.value.complexity \in {"simple", "moderate", "complex"}

-----------------------------------------------------------------------------
(* Properties of classify_question, under SpecClassifier.                  *)

UpperChar(c) ==
    IF \E i \in 1..26 : LowerAlpha[i] = c
    THEN UpperAlpha[CHOOSE i \in 1..26 : LowerAlpha[i] = c]
    ELSE c

Upper(s) == [i \in 1..Len(s) |-> UpperChar(s[i])]

\* The letters of s with the case of each changed.
SwapCase(s) ==
    [i \in 1..Len(s) |-> IF LowerChar(s[i]) = s[i] THEN UpperChar(s[i]) ELSE LowerChar(s[i])]

\* The criteria as the claim words them.
MeetsComplex(q) ==
    \/ \E kw \in complex_keywords : Contains(Lower(q), kw)
    \/ Len(Split(q)) > 25

MeetsModerate(q) ==
    \/ Count(q, "?") > 1
    \/ Contains(Lower(q), <<" ", "a", "n", "d", " ">>)
    \/ Len(Split(q)) > 15

\* C5: classify_question returns 'complex' iff the lower-cased question
\* contains one of the 14 trigger words or has more than 25 tokens, otherwise
\* 'moderate' iff it has more than one '?', contains " and " or has more than
\* 15 tokens, otherwise 'simple'; complex takes precedence, and the letter
\* case of the input does not change the result.
C5_ClassificationRule ==
    tier # "none" =>
        /\ Cardinality(complex_keywords) = 14
        /\ tier = (IF MeetsComplex(question) THEN "complex"
                   ELSE IF MeetsModerate(question) THEN "moderate"
                   ELSE "simple")
        /\ classify_question(Lower(question)) = tier
        /\ classify_question(Upper(question)) = tier
        /\ classify_question(SwapCase(question)) = tier

C5_Witness ==
    /\ tier = "complex"
    /\ MeetsComplex(question)
    /\ MeetsModerate(question)
    /\ Lower(question) # question

\* C6 (as amended): classify_question("How do we architect this?") returns
\* 'simple'.
C6_ArchitectIsSimple ==
    (question = QArchitect /\ tier # "none") => tier = "simple"

C6_Witness == question = QArchitect /\ tier # "none"

\* C6 (as claimed): classify_question("How do we architect this?") returns
\* 'complex'.
C6_ArchitectIsComplex ==
    (question = QArchitect /\ tier # "none") => tier = "complex"

-----------------------------------------------------------------------------
(* Properties of the detector, under SpecDetector.                         *)

Tokens(t) == Split(Strip(t))

\* The sum of the three weights as the claim words them: the third rule
\* asks for a token, among the first three, that is a question word (its
\* trailing '?,:;' stripped, as for the first token).
TokenIsQuestionWord(tok) ==
    RStripChars(Lower(tok), {"?", ",", ":", ";"}) \in question_words

ClaimedSum(t) ==
    (IF EndsWith(Strip(t), "?") THEN 6 ELSE 0)
    + (IF TokenIsQuestionWord(Tokens(t)[1]) THEN 3 ELSE 0)
    + (IF \E k \in 1..Len(Take(Tokens(t), 3)) : TokenIsQuestionWord(Tokens(t)[k])
       THEN 2 ELSE 0)

\* C7 (as claimed): for every non-empty segment is_question returns
\* confidence min(s, 1.0), s being the sum of 0.6 (ends with '?'), 0.3 (first
\* token is a question word) and 0.2 (one of the first three tokens is a
\* question word), and classifies it as a question iff s >= 0.5.
C7_ScoreByTokenMembership ==
    (returned.op = "is_question" /\ Tokens(text) # <<>>) =>
        /\ ~returned.ret.raised
        /\ returned.ret.confidence =
              (IF ClaimedSum(text) < 10 THEN ClaimedSum(text) ELSE 10)
        /\ returned.ret.is_q = (ClaimedSum(text) >= 5)

\* C8 (as amended): is_question("The sky is blue.") returns confidence 0.2
\* and classifies the text as not a question.
C8_SkyIsBlueScoresTwoTenths ==
    (text = TxtSkyIsBlue /\ returned.op = "is_question") =>
        /\ ~returned.ret.raised
        /\ returned.ret.confidence = 2
        /\ ~returned.ret.is_q

C8_Witness == text = TxtSkyIsBlue /\ returned.op = "is_question"

\* C8 (as claimed): is_question("The sky is blue.") returns confidence 0.0
\* and classifies the text as not a question.
C8_SkyIsBlueScoresZero ==
    (text = TxtSkyIsBlue /\ returned.op = "is_question") =>
        /\ ~returned.ret.raised
        /\ returned.ret.confidence = 0
        /\ ~returned.ret.is_q

\* The sentences of t: each piece between runs of '.', '!' and '?', trimmed,
\* with whether the run that ends it ends with '?'.
SentencesOf(t) ==
    LET IsMark(i) == t[i] \in {".", "!", "?"}
        ends == {i \in 1..Len(t) : IsMark(i) /\ (i = Len(t) \/ ~IsMark(i + 1))}
        pieces == ReSplit(t)
    IN  [k \in 1..Len(pieces) |->
            [text |-> Strip(pieces[k]),
             asks |-> k <= Cardinality(ends) /\ t[Kth(ends, k)] = "?"]]

\* The score of a sentence under the rules of is_question, the 0.6 for a
\* sentence that ends with '?' included.
SentenceScore(sentence) ==
    (IF sentence.asks THEN EndsWithMarkWeight ELSE 0)
    + (IF first_word_hit(sentence.text) THEN FirstWordWeight ELSE 0)
    + (IF first_three_hit(sentence.text) THEN FirstThreeWeight ELSE 0)

\* Whether a sentence is one the claim has returned.
Scoring(sentence) ==
    sentence.text # <<>> /\ SentenceScore(sentence) >= QuestionCutoff

\* The scoring sentences among `sentences`, in order.
RECURSIVE ScoringSentences(_)
ScoringSentences(sentences) ==
    IF sentences = <<>> THEN <<>>
    ELSE (IF Scoring(Head(sentences)) THEN <<Head(sentences)>> ELSE <<>>)
         \o ScoringSentences(Tail(sentences))

\* C9 (as claimed): extract_questions returns, in the order of the
\* sentences, exactly one record for each non-empty sentence that scores at
\* least 0.5 (the 0.6 for ending with '?' included) and none for the others;
\* each record's text is the trimmed segment and its confidence the value
\* is_question returned for it.
C9_OneRecordPerScoringSentence ==
    returned.op = "extract_questions" =>
        LET expected == ScoringSentences(SentencesOf(text))
        IN  /\ ~returned.ret.raised
            /\ Len(returned.ret.value) = Len(expected)
            /\ \A k \in 1..Len(expected) :
                  /\ returned.ret.value[k].text = expected[k].text
                  /\ returned.ret.value[k].confidence =
                        is_question(expected[k].text).confidence

\* C10 (as claimed): on text that is empty or only whitespace, is_question,
\* extract_questions and analyze_sentiment each return a value of their
\* shape and none raises.
C10_BlankTextNeverRaises ==
    (returned.op # "none" /\ Strip(text) = <<>>) =>
        /\ ~returned.ret.raised
        /\ (returned.op = "is_question" =>
                returned.ret.is_q \in BOOLEAN /\ returned.ret.confidence \in 0..10)
        /\ (returned.op = "extract_questions" =>
                \A k \in 1..Len(returned.ret.value) :
                    DOMAIN returned.ret.value[k] = {"text", "confidence", "sentiment"})
        /\ (returned.op = "analyze_sentiment" =>
                DOMAIN returned.ret.value =
                    {"sentiment", "polarity", "subjectivity", "confidence"})

-----------------------------------------------------------------------------
(* Sentiment records.                                                      *)

\* The record the thresholds prescribe for polarity p and subjectivity s.
PrescribedSentiment(p, s) ==
    [sentiment |-> CASE p > 10 -> "positive"
                     [] p < -10 -> "negative"
                     [] OTHER -> "neutral",
     polarity |-> p,
     subjectivity |-> s,
     confidence |-> IF p < 0 THEN 0 - p ELSE p]

\* C11: analyze_sentiment never raises and returns a record of four fields:
\* the one the thresholds prescribe for the polarity and subjectivity the
\* estimator yields (polarity exactly 0.1 or -0.1 being neutral), and exactly
\* {neutral, 0.0, 0.0, 0.0} when the estimator fails and for the empty text.
C11_SentimentRecord ==
    returned.op = "analyze_sentiment" =>
        /\ ~returned.ret.raised
        /\ DOMAIN returned.ret.value =
               {"sentiment", "polarity", "subjectivity", "confidence"}
        /\ returned.ret.value =
               IF returned.est.fails
               THEN [sentiment |-> "neutral", polarity |-> 0,
                     subjectivity |-> 0, confidence |-> 0]
               ELSE PrescribedSentiment(returned.est.polarity,
                                        returned.est.subjectivity)
        /\ text = <<>> =>
               returned.ret.value = [sentiment |-> "neutral", polarity |-> 0,
                                     subjectivity |-> 0, confidence |-> 0]

\* The estimator yielded a polarity of exactly 0.1 and the record is neutral.
C11_Witness ==
    /\ returned.op = "analyze_sentiment"
    /\ ~returned.est.fails
    /\ returned.est.polarity = 10
    /\ returned.ret.value.sentiment = "neutral"
    /\ returned.ret.value.confidence = 10

-----------------------------------------------------------------------------
(* The context in route_and_query, under SpecRouter.                       *)

\* C12: when no complexity is supplied, a call returns the same complexity
\* and model name and queries the same backend as the same call made with
\* any other context would, in either state of the router; the context only
\* shows in the prompt sent to that backend.
C12_ContextOnlyInPrompt ==
    (Called /\ request.complexity = NoneValue) =>
        /\ Len(calls) = 1
        /\ calls[1].prompt = build_prompt(request.question, request.context)
        /\ \A c2 \in Contexts :
              LET other == route_and_query(request.question, c2, NoneValue,
                                           claude_available, request.outcome)
              IN  /\ other.ret.value.complexity = result.value.complexity
                  /\ other.ret.value.model_used = result.value.model_used
                  /\ BackendsOf(other.calls) = BackendsOf(calls)
                  /\ Len(other.calls) = 1
                  /\ other.calls[1].prompt = build_prompt(request.question, c2)
                  /\ c2 # request.context => other.calls[1].prompt # calls[1].prompt

\* A question with no trigger word was asked with a context that holds one,
\* and was classified 'simple'.
C12_Witness ==
    /\ Called
    /\ request.complexity = NoneValue
    /\ request.question = QArchitect
    /\ request.context = CtxTwo
    /\ Contains(Lower(request.context), <<"d", "e", "s", "i", "g", "n">>)
    /\ result.value.complexity = "simple"
    /\ BackendsOf(calls) = <<"gemini_flash">>

-----------------------------------------------------------------------------
(* What extract_questions returns, under SpecDetector.                     *)

\* The maximal runs of characters other than '.', '!' and '?' in t, each
\* trimmed, in order.
Segments(t) ==
    LET Inside(i) == t[i] \notin {".", "!", "?"}
        starts == {i \in 1..Len(t) : Inside(i) /\ (i = 1 \/ ~Inside(i - 1))}
        ends   == {i \in 1..Len(t) : Inside(i) /\ (i = Len(t) \/ ~Inside(i + 1))}
    IN  [k \in 1..Cardinality(starts) |->
            Strip(SubSeq(t, Kth(starts, k), Kth(ends, k)))]

\* The first token of a segment, lower-cased and its trailing ',:;'
\* stripped, is a question-indicator word.
FirstTokenAsks(segment) ==
    /\ Split(segment) # <<>>
    /\ RStripChars(Lower(Split(segment)[1]), {",", ":", ";"}) \in question_words

\* The segments whose first token asks, in order.
RECURSIVE AskingSegments(_)
AskingSegments(segments) ==
    IF segments = <<>> THEN <<>>
    ELSE (IF FirstTokenAsks(Head(segments)) THEN <<Head(segments)>> ELSE <<>>)
         \o AskingSegments(Tail(segments))

\* C16: every record extract_questions returns has confidence exactly 0.5
\* and a text without '?', '.' or '!'; the records are those of the segments
\* whose first token (lower-cased, trailing ',:;' stripped) is a
\* question-indicator word, in order; and "You finished the report?", a
\* question by its '?' only, yields no record.
C16_ReturnedByFirstTokenOnly ==
    returned.op = "extract_questions" =>
        /\ ~returned.ret.raised
        /\ [k \in 1..Len(returned.ret.value) |-> returned.ret.value[k].text]
               = AskingSegments(Segments(text))
        /\ \A k \in 1..Len(returned.ret.value) :
              /\ returned.ret.value[k].confidence = 5
              /\ \A i \in 1..Len(returned.ret.value[k].text) :
                    returned.ret.value[k].text[i] \notin {"?", ".", "!"}
        /\ text = TxtFinished => returned.ret.value = <<>>

\* "Done. What now? You agree?" yields the one record "What now" at 0.5,
\* and nothing for "You agree", which its '?' alone made a question.
C16_Witness ==
    /\ returned.op = "extract_questions"
    /\ text = TxtTwoSentences
    /\ Len(returned.ret.value) = 1
    /\ returned.ret.value[1].text = <<"W", "h", "a", "t", " ", "n", "o", "w">>
    /\ returned.ret.value[1].confidence = 5
    /\ is_question(<<"Y", "o", "u", " ", "a", "g", "r", "e", "e", "?">>).is_q

-----------------------------------------------------------------------------
(* The values is_question returns, under SpecDetector.                     *)

\* C18: for a text with at least one token, is_question answers "question"
\* iff the trimmed text ends with '?' or its first token (lower-cased,
\* trailing '?,:;' stripped) is a question-indicator word; the first-three
\* rule fires whenever the first-token rule does and alone stays below the
\* cut-off; the confidence is one of 0.0, 0.2, 0.5, 0.6, 0.8 and 1.0, and is
\* 1.0 only when all three rules fire (a sum of 1.1, clamped).
C18_QuestionByMarkOrFirstToken ==
    (returned.op = "is_question" /\ Tokens(text) # <<>>) =>
        LET marked == EndsWith(Strip(text), "?")
            first == TokenIsQuestionWord(Tokens(text)[1])
            three == first_three_hit(Strip(text))
        IN  /\ ~returned.ret.raised
            /\ returned.ret.is_q = (marked \/ first)
            /\ first_word_hit(Strip(text)) = first
            /\ first => three
            /\ (three /\ ~first /\ ~marked) =>
                  (returned.ret.confidence = 2 /\ ~returned.ret.is_q)
            /\ returned.ret.confidence \in {0, 2, 5, 6, 8, 10}
            /\ returned.ret.confidence \notin {3, 9}
            /\ returned.ret.confidence = 10 <=> (marked /\ first /\ three)
            /\ returned.ret.confidence =
                  CASE marked /\ first -> 10
                    [] marked /\ ~first /\ three -> 8
                    [] marked /\ ~three -> 6
                    [] ~marked /\ first -> 5
                    [] ~marked /\ ~first /\ three -> 2
                    [] OTHER -> 0

\* "What is the deadline?" fires all three rules and is returned at 1.0.
C18_Witness ==
    /\ returned.op = "is_question"
    /\ text = TxtDeadline
    /\ EndsWith(Strip(text), "?")
    /\ first_word_hit(Strip(text))
    /\ first_three_hit(Strip(text))
    /\ returned.ret.is_q
    /\ returned.ret.confidence = 10

-----------------------------------------------------------------------------
(* Properties of the advanced app, under SpecApp and SpecContext.         *)

\* old is new with nothing removed, reordered or edited: new starts with it.
IsPrefix(old, new) ==
    Len(old) <= Len(new) /\ SubSeq(new, 1, Len(old)) = old

\* A step that appended an entry to the transcript: an accepted submission.
Submission == Len(meeting_context') = Len(meeting_context) + 1

\* C13: on a transcript submission every question extract_questions
\* returns is appended to questions_detected, and a question is sent to the
\* router, one record being appended to auto_responses for it, iff
\* auto-response is enabled, its confidence is at least the threshold and a
\* router has been initialized; for the other questions there is no backend
\* call and no record.
C13_AutoRespondIffWanted ==
    [][Submission =>
          LET found == extract_questions(request'.text, request'.ests).value
              Wanted(q) == /\ auto_response_enabled
                           /\ q.confidence * 10 >= confidence_threshold
                           /\ model_router
              answered == SelectSeq(found, Wanted)
              added == SubSeq(auto_responses', Len(auto_responses) + 1,
                              Len(auto_responses'))
          IN  /\ request'.op = "submit"
              /\ questions_detected' = questions_detected \o found
              /\ IsPrefix(auto_responses, auto_responses')
              /\ Len(added) = Len(answered)
              /\ Len(calls') = Len(answered)
              /\ \A k \in 1..Len(answered) :
                    /\ added[k].question = answered[k].text
                    /\ added[k].sentiment = answered[k].sentiment
                    /\ added[k].model = BackendName(calls'[k].backend)
                    /\ calls'[k].prompt =
                          build_prompt(answered[k].text,
                                       get_context_text(meeting_context'))]_vars

\* A text with two questions was submitted with auto-response enabled, the
\* threshold at 0.5 and a router: both were detected and both answered.
C13_Witness ==
    /\ request.op = "submit"
    /\ request.text = TxtWhyDesign
    /\ auto_response_enabled
    /\ confidence_threshold = 50
    /\ model_router
    /\ Len(questions_detected) >= 2
    /\ Len(auto_responses) >= 2
    /\ Len(calls) = 2

\* The lines of the last min(n, 20) entries of a transcript of n entries,
\* oldest first, joined by newlines.
ExpectedContext(entries) ==
    LET n == Len(entries)
        m == IF n < 20 THEN n ELSE 20
    IN  Join([k \in 1..m |->
                 <<"[">> \o entries[n - m + k].timestamp \o <<"]", " ">>
                 \o entries[n - m + k].speaker \o <<":", " ">>
                 \o entries[n - m + k].text],
             <<"\n">>)

\* C14: after any submissions and clears, the context text is made of the
\* lines "[timestamp] speaker: text" of the last min(n, 20) entries of the
\* transcript, in insertion order, and of nothing older; it is empty iff
\* the transcript is; and it is the context in every prompt sent to a
\* backend.
C14_ContextIsLastTwenty ==
    LET expected == ExpectedContext(meeting_context)
        n == Len(meeting_context)
    IN  /\ get_context_text(meeting_context) = expected
        /\ get_context_text_basic(meeting_context) = expected
        /\ (expected = <<>>) = (meeting_context = <<>>)
        /\ n > 0 => Count(expected, "\n") + 1 = (IF n < 20 THEN n ELSE 20)
        /\ \A c \in 1..Len(calls) :
              SubSeq(calls[c].prompt, 1,
                     Len(PromptHead) + Len(expected) + Len(PromptMid))
                  = PromptHead \o expected \o PromptMid

\* A question was asked on a transcript of 21 entries whose first entry is
\* older than its last: the prompt sent leaves the first entry out.
C14_Witness ==
    /\ Len(meeting_context) = 21
    /\ meeting_context[1].timestamp # meeting_context[21].timestamp
    /\ request.op = "ask"
    /\ Len(calls) = 1
    /\ get_context_text(meeting_context) =
           ExpectedContext(SubSeq(meeting_context, 2, 21))

\* C15: every step changes each of meeting_context, questions_detected and
\* auto_responses only by appending at its end, or empties all three
\* together; no entry is removed, reordered or edited, and no sequence is
\* emptied while another keeps its entries.
C15_AppendOrClearAll ==
    [][\/ /\ IsPrefix(meeting_context, meeting_context')
          /\ IsPrefix(questions_detected, questions_detected')
          /\ IsPrefix(auto_responses, auto_responses')
       \/ /\ meeting_context' = <<>>
          /\ questions_detected' = <<>>
          /\ auto_responses' = <<>>]_vars

\* Two submissions have each added two questions and two responses to
\* what was there.
C15_Witness ==
    /\ Len(meeting_context) = 2
    /\ Len(questions_detected) = 4
    /\ Len(auto_responses) = 4
    /\ request.op = "submit"

\* C17: a step appends to auto_responses, or a submission calls a backend,
\* only when the threshold is exactly 0.5; with the threshold above 0.5
\* (0.75 by default) and auto-response enabled and a router initialized, no
\* submission answers a detected question.
C17_NoAutoResponseAboveHalf ==
    [][(\/ Len(auto_responses') > Len(auto_responses)
        \/ (Submission /\ calls' # <<>>))
       => confidence_threshold = 50]_vars

\* Two questions were detected in a submission made with auto-response
\* enabled, a router and the threshold at 0.55: none was answered.
C17_Witness ==
    /\ request.op = "submit"
    /\ request.text = TxtWhyDesign
    /\ auto_response_enabled
    /\ model_router
    /\ confidence_threshold = 55
    /\ Len(questions_detected) >= 2
    /\ \A k \in 1..Len(questions_detected) : questions_detected[k].confidence = 5
    /\ auto_responses = <<>>
    /\ calls = <<>>

=============================================================================
